---- MODULE Spec2Model ----
(***************************************************************************)
(* cuDNN batch normalization operators of chainerx                         *)
(* (chainerx/cuda/cuda_device/batch_norm.cc): GetBatchNormMode,            *)
(* UpdateRunning, CudaBatchNormForwardOp, CudaBatchNormBackwardOp and      *)
(* CudaFixedBatchNormForwardOp.                                            *)
(*                                                                         *)
(* Arrays are records [dtype, contiguous, device, buf]; the values live in *)
(* a heap (buffer name -> value), so that two arrays over the same storage *)
(* alias as they do in the code.  Floating values are integers counted in  *)
(* units of the float64 spacing; float32 keeps every 2nd and float16 every *)
(* 4th of them, and a conversion rounds to the nearest kept value.         *)
(***************************************************************************)
EXTENDS Integers, Sequences, FiniteSets, TLC

VARIABLES
    debug,          \* CHAINERX_DEBUG: TRUE in a debug build, FALSE under NDEBUG
    x,              \* the caller's input array
    running_mean,   \* the caller's running mean array
    running_var,    \* the caller's running variance array
    gamma,          \* the caller's scale array
    beta,           \* the caller's shift array
    mem,            \* values of the caller's buffers
    state,          \* nonstd::optional<std::shared_ptr<void>> of the caller
    last,           \* what the latest operator call did
    alive,          \* FALSE once the process was aborted
    fuel,           \* operator calls the caller still makes
    axisArg,        \* argument of a direct GetBatchNormMode call
    axisRes         \* its result

vars == <<debug, x, running_mean, running_var, gamma, beta, mem, state, last,
          alive, fuel, axisArg, axisRes>>

----------------------------------------------------------------------------
(* Bounds of the model *)

\* operator calls in a run of Spec
OpsCalls == 1
\* operator calls in a run of SpecLife
LifeCalls == 3
\* decay is a multiple of 1/DecayDen
DecayDen == 4
\* largest tensor value
MaxVal == 8
\* axis indices run over 0..MaxAxis
MaxAxis == 5
\* an Axes holds at most MaxAxesLen indices
MaxAxesLen == 4

\* CUDNN_BN_MIN_EPSILON (1e-5), in units of 1e-6
CUDNN_BN_MIN_EPSILON == 10

----------------------------------------------------------------------------
(* Dtypes and conversions *)

Dtypes == {"float16", "float32", "float64"}

\* spacing of the values a dtype keeps
Ulp(dt) == CASE dt = "float16" -> 4 [] dt = "float32" -> 2 [] OTHER -> 1

\* n/q rounded to the nearest integer, ties to even (n >= 0, q > 0)
RoundDivEven(n, q) ==
    LET f == n \div q
        r == n % q
    IN  IF 2 * r < q THEN f
        ELSE IF 2 * r > q THEN f + 1
        ELSE IF f % 2 = 0 THEN f ELSE f + 1

\* the value n/den as dtype dt stores it
RoundTo(dt, n, den) == Ulp(dt) * RoundDivEven(n, den * Ulp(dt))

\* value conversion of Array::AsType / Device::AsType
CastVal(dt, v) == RoundTo(dt, v, 1)

\* the coarser of two dtypes' spacings
Coarser(a, b) == IF Ulp(a) >= Ulp(b) THEN Ulp(a) ELSE Ulp(b)

Abs(i) == IF i < 0 THEN -i ELSE i

----------------------------------------------------------------------------
(* Arrays and the heap *)

TheDevice == "cuda:1"

Arr(dt, c, dev, b) == [dtype |-> dt, contiguous |-> c, device |-> dev, buf |-> b]

\* heap with buffer b holding v
Put(heap, b, v) == [heap EXCEPT ![b] = v]

\* internal::AsContiguous(a, dt): a itself when it is contiguous and of dtype
\* dt, else a fresh contiguous copy converted to dt, in buffer tmp
AsContiguousArr(a, dt, tmp) ==
    IF a.contiguous /\ a.dtype = dt THEN a ELSE Arr(dt, TRUE, a.device, tmp)

\* the copy keeps the value when the dtype is kept and converts it otherwise
Convert(from, dt, v) == IF from = dt THEN v ELSE CastVal(dt, v)

AsContiguousHeap(heap, a, dt, tmp) ==
    IF a.contiguous /\ a.dtype = dt THEN heap
    ELSE Put(heap, tmp, Convert(a.dtype, dt, heap[a.buf]))

\* Array::AsType(dt): a fresh contiguous converted copy
AsTypeArr(a, dt, tmp) == Arr(dt, TRUE, a.device, tmp)

AsTypeHeap(heap, a, dt, tmp) == Put(heap, tmp, Convert(a.dtype, dt, heap[a.buf]))

\* EmptyLike(a, device)
EmptyLike(a, dev, tmp) == Arr(a.dtype, TRUE, dev, tmp)

----------------------------------------------------------------------------
(* GetBatchNormMode *)

GetBatchNormMode_NoFourth(axis) ==
    IF Len(axis) = 1 /\ axis[1] = 0 THEN "PER_ACTIVATION"
    ELSE IF \/ (Len(axis) = 3 /\ axis[1] = 0 /\ axis[2] = 2 /\ axis[3] = 3)
            \/ (Len(axis) = 4 /\ axis[1] = 0 /\ axis[2] = 2 /\ axis[3] = 3)
         THEN "SPATIAL"
         ELSE "DimensionError"

GetBatchNormMode(axis) ==
    IF Len(axis) = 1 /\ axis[1] = 0 THEN "PER_ACTIVATION"
    ELSE IF \/ (Len(axis) = 3 /\ axis[1] = 0 /\ axis[2] = 2 /\ axis[3] = 3)
            \/ (Len(axis) = 4 /\ axis[1] = 0 /\ axis[2] = 2 /\ axis[3] = 3
                              /\ axis[4] = 4)
         THEN "SPATIAL"
         ELSE "DimensionError"

----------------------------------------------------------------------------
(* The cuDNN engine, as the operators use it *)

\* cudnnDeriveBNTensorDescriptor + CudnnBNTensorDescriptor::GetDtype: the
\* parameter dtype the engine demands for an input of dtype xdt
DeriveBNDtype(xdt) == IF xdt = "float16" THEN "float32" ELSE xdt

\* value written by an engine primitive or by nothing yet
Unwritten == [by |-> "none", v |-> 0]
Written(op, v) == [by |-> op, v |-> v]

\* running*(1 - factor) + batch*factor in the engine's parameter dtype
EngineBlend(edt, running, batch, factor) ==
    RoundTo(edt, running * (DecayDen - factor) + batch * factor, DecayDen)

\* cudnnBatchNormalizationForwardTraining: writes y, both running buffers,
\* the saved mean and the saved inverse std
CudnnForwardTraining(heap, edt, xb, yb, factor, rmb, rvb, eps, meanb, invb) ==
    LET bmean == CastVal(edt, heap[xb].mean)
        bvar  == CastVal(edt, heap[xb].var)
        h1 == Put(heap, yb, Written("training", heap[xb].mean))
        h2 == Put(h1, rmb, EngineBlend(edt, heap[rmb], bmean, factor))
        h3 == Put(h2, rvb, EngineBlend(edt, heap[rvb], bvar, factor))
        h4 == Put(h3, meanb, bmean)
    IN  Put(h4, invb, [var |-> bvar, eps |-> eps])

\* cudnnBatchNormalizationForwardInference: writes y only
CudnnForwardInference(heap, xb, yb) ==
    Put(heap, yb, Written("inference", heap[xb].mean))

\* cudnnBatchNormalizationBackward: writes dx, dscale and dbias
CudnnBackward(heap, xb, dyb, dxb, dscaleb, dbiasb, meanb, invb) ==
    LET g == Written("backward", heap[meanb])
    IN  Put(Put(Put(heap, dxb, g), dscaleb, g), dbiasb, g)

----------------------------------------------------------------------------
(* Helpers of the operators *)

EpsBelowMin_Inclusive(eps) == eps <= CUDNN_BN_MIN_EPSILON

\* static_cast<double>(eps) < CUDNN_BN_MIN_EPSILON
EpsBelowMin(eps) == eps < CUDNN_BN_MIN_EPSILON

ExpAvgFactor_Swapped(decay) == decay

\* 1.0 - static_cast<double>(decay)
ExpAvgFactor(decay) == DecayDen - decay

UpdateRunningAsserts(running, running_updated) ==
    /\ running.contiguous
    /\ running_updated.contiguous
    /\ running.device = running_updated.device
    /\ (running.dtype = running_updated.dtype) = (running.buf = running_updated.buf)

UpdateRunning_NoWriteBack(heap, running, running_updated, back) == heap

\* UpdateRunning, with running_casted_back in buffer back
UpdateRunning(heap, running, running_updated, back) ==
    IF running.dtype = running_updated.dtype
    THEN heap
    ELSE LET h1 == AsTypeHeap(heap, running_updated, running.dtype, back)
         IN  Put(h1, running.buf, h1[back])

StatBuffer_LikeGamma(gamma_casted_cont, device, tmp) == EmptyLike(gamma, device, tmp)

\* Array x_mean = EmptyLike(gamma_casted_cont, device), and x_inv_std alike
StatBuffer(gamma_casted_cont, device, tmp) == EmptyLike(gamma_casted_cont, device, tmp)

\* the array handed to the engine for a running statistic
RunningCasted(running, edt, tmp) ==
    IF running.dtype # edt THEN AsTypeArr(running, edt, tmp) ELSE running

RunningCastedHeap(heap, running, edt, tmp) ==
    IF running.dtype # edt THEN AsTypeHeap(heap, running, edt, tmp) ELSE heap

ForwardPrecheck_AxisFirst(eps, rm, rv, axis) ==
    IF GetBatchNormMode(axis) = "DimensionError" THEN "DimensionError"
    ELSE IF EpsBelowMin(eps) THEN "CudnnError"
    ELSE IF ~rm.contiguous THEN "DeviceError(running_mean)"
    ELSE IF ~rv.contiguous THEN "DeviceError(running_var)"
    ELSE "none"

\* the throws of CudaBatchNormForwardOp::Call, in the order of the code
ForwardPrecheck(eps, rm, rv, axis) ==
    IF EpsBelowMin(eps) THEN "CudnnError"
    ELSE IF ~rm.contiguous THEN "DeviceError(running_mean)"
    ELSE IF ~rv.contiguous THEN "DeviceError(running_var)"
    ELSE IF GetBatchNormMode(axis) = "DimensionError" THEN "DimensionError"
    ELSE "none"

\* an array of a state object together with its value
Held(a, v) == [arr |-> a, val |-> v]

CudaBatchNormState(x_cont, x_mean, x_inv_std) ==
    [x_cont |-> x_cont, x_mean |-> x_mean, x_inv_std |-> x_inv_std]

\* what the bytes behind an empty slot read as when taken for a state object
NoObj ==
    CudaBatchNormState(
        Held(Arr("float32", TRUE, TheDevice, "none"), [mean |-> 0, var |-> 0]),
        Held(Arr("float32", TRUE, TheDevice, "none"), 0),
        Held(Arr("float32", TRUE, TheDevice, "none"), [var |-> 0, eps |-> 0]))

\* the values of nonstd::optional<std::shared_ptr<void>>
NullOpt == [has_value |-> FALSE, held |-> FALSE, obj |-> NoObj]
NullPtr == [has_value |-> TRUE, held |-> FALSE, obj |-> NoObj]
Holding(o) == [has_value |-> TRUE, held |-> TRUE, obj |-> o]

RetainState_Always(st, o) == Holding(o)

\* if (state.has_value()) state->reset(new CudaBatchNormState{...})
RetainState(st, o) == IF st.has_value THEN Holding(o) ELSE st

BorrowState_Consume(st) == NullPtr

\* the backward operator reads the state through const references only
BorrowState(st) == st

----------------------------------------------------------------------------
(* Inputs of the calls.  The arrays handed to the operators satisfy the     *)
(* CHAINERX_DEBUG cross-checks on shapes, devices and dtype kinds that open *)
(* the forward operators: all are float arrays of matching shapes on the    *)
(* device of x.                                                             *)

GoutInputs == {Arr("float32", FALSE, TheDevice, "gout")}
EpsInputs == {CUDNN_BN_MIN_EPSILON - 1, CUDNN_BN_MIN_EPSILON, CUDNN_BN_MIN_EPSILON + 1}
DecayInputs == {1, DecayDen \div 2}
AxisInputs == {<<0>>, <<0, 2, 3>>, <<0, 1, 2>>}
AxesInputs == UNION {[1..n -> 0..MaxAxis] : n \in 0..MaxAxesLen}

CallerBufs == {"x", "running_mean", "running_var", "gamma", "beta", "out", "gx",
               "ggamma", "gbeta"}

\* the buffers a call allocates
TempBufs == {"x_cont", "gamma_casted_cont", "beta_casted_cont",
             "running_mean_casted", "running_var_casted",
             "running_mean_casted_back", "running_var_casted_back",
             "x_mean", "x_inv_std", "gout", "gout_cont", "gx_cont",
             "ggamma_casted_cont", "gbeta_casted_cont", "mean_casted_cont",
             "var_casted_cont"}

\* the heap a call starts on, and what of a heap outlives the call
Unallocated == 0 - 1
Heap(m) == [b \in CallerBufs \cup TempBufs |-> IF b \in CallerBufs THEN m[b] ELSE Unallocated]
Caller(heap) == [b \in CallerBufs |-> heap[b]]

NoEng == [edt |-> "none", bmean |-> 0, bvar |-> 0,
          rm_target |-> "none", rv_target |-> "none",
          rm_copied |-> FALSE, rv_copied |-> FALSE,
          rm_engine |-> 0, rv_engine |-> 0]

\* the record of a call: its operator, how it ended, whether it ran into
\* undefined behaviour, whether it invoked the engine, its scalar arguments,
\* the caller's slot and running values on entry, and whether it repeats, on
\* a state object, the successful backward call before it
LastRec(op, outcome, ub, engine, eps, decay, axis, eng) ==
    [op |-> op, outcome |-> outcome, ub |-> ub, engine |-> engine, eps |-> eps,
     decay |-> decay, axis |-> axis, eng |-> eng,
     slot |-> state.has_value, held |-> state.held,
     pre_rm |-> mem["running_mean"], pre_rv |-> mem["running_var"],
     again |-> /\ op = "backward" /\ state.held
               /\ last.op = "backward" /\ last.outcome = "ok"
               /\ last.eps = eps /\ last.axis = axis]

NoCall ==
    [op |-> "none", outcome |-> "none", ub |-> FALSE, engine |-> FALSE, eps |-> 0,
     decay |-> 0, axis |-> <<>>, eng |-> NoEng,
     slot |-> FALSE, held |-> FALSE, pre_rm |-> 0, pre_rv |-> 0, again |-> FALSE]

----------------------------------------------------------------------------
(* CudaBatchNormForwardOp::Call *)

ForwardTraining ==
    /\ alive /\ fuel > 0
    /\ \E eps \in EpsInputs, decay \in DecayInputs, axis \in AxisInputs :
         LET err == ForwardPrecheck(eps, running_mean, running_var, axis)
         IN  IF err # "none"
             THEN /\ last' = LastRec("forward", err, FALSE, FALSE, eps, decay,
                                     axis, NoEng)
                  /\ UNCHANGED <<mem, state, alive>>
             ELSE LET device == x.device
                      h0 == Heap(mem)
                      x_cont == AsContiguousArr(x, x.dtype, "x_cont")
                      h1 == AsContiguousHeap(h0, x, x.dtype, "x_cont")
                      edt == DeriveBNDtype(x_cont.dtype)
                      gamma_casted_cont == AsContiguousArr(gamma, edt, "gamma_casted_cont")
                      h2 == AsContiguousHeap(h1, gamma, edt, "gamma_casted_cont")
                      beta_casted_cont == AsContiguousArr(beta, edt, "beta_casted_cont")
                      h3 == AsContiguousHeap(h2, beta, edt, "beta_casted_cont")
                      running_mean_casted ==
                          RunningCasted(running_mean, edt, "running_mean_casted")
                      h4 == RunningCastedHeap(h3, running_mean, edt, "running_mean_casted")
                      running_var_casted ==
                          RunningCasted(running_var, edt, "running_var_casted")
                      h5 == RunningCastedHeap(h4, running_var, edt, "running_var_casted")
                      x_mean == StatBuffer(gamma_casted_cont, device, "x_mean")
                      x_inv_std == StatBuffer(gamma_casted_cont, device, "x_inv_std")
                      h6 == CudnnForwardTraining(h5, edt, x_cont.buf, "out",
                                ExpAvgFactor(decay), running_mean_casted.buf,
                                running_var_casted.buf, eps, x_mean.buf, x_inv_std.buf)
                      ok1 == UpdateRunningAsserts(running_mean, running_mean_casted)
                      h7 == UpdateRunning(h6, running_mean, running_mean_casted,
                                          "running_mean_casted_back")
                      ok2 == UpdateRunningAsserts(running_var, running_var_casted)
                      h8 == UpdateRunning(h7, running_var, running_var_casted,
                                          "running_var_casted_back")
                      obj == CudaBatchNormState(Held(x_cont, h8[x_cont.buf]),
                                                Held(x_mean, h8[x_mean.buf]),
                                                Held(x_inv_std, h8[x_inv_std.buf]))
                      eng == [edt |-> edt, bmean |-> h6[x_mean.buf],
                              bvar |-> h6[x_inv_std.buf].var,
                              rm_target |-> running_mean_casted.buf,
                              rv_target |-> running_var_casted.buf,
                              rm_copied |-> h8["running_mean_casted_back"] # Unallocated,
                              rv_copied |-> h8["running_var_casted_back"] # Unallocated,
                              rm_engine |-> h6[running_mean_casted.buf],
                              rv_engine |-> h6[running_var_casted.buf]]
                  IN  IF debug /\ ~ok1
                      THEN /\ last' = LastRec("forward", "abort", FALSE, TRUE, eps,
                                              decay, axis, eng)
                           /\ mem' = Caller(h6)
                           /\ alive' = FALSE
                           /\ UNCHANGED state
                      ELSE IF debug /\ ~ok2
                      THEN /\ last' = LastRec("forward", "abort", FALSE, TRUE, eps,
                                              decay, axis, eng)
                           /\ mem' = Caller(h7)
                           /\ alive' = FALSE
                           /\ UNCHANGED state
                      ELSE /\ last' = LastRec("forward", "ok", FALSE, TRUE, eps,
                                              decay, axis, eng)
                           /\ mem' = Caller(h8)
                           /\ state' = RetainState(state, obj)
                           /\ UNCHANGED alive
    /\ fuel' = fuel - 1
    /\ UNCHANGED <<debug, x, running_mean, running_var, gamma, beta, axisArg, axisRes>>

----------------------------------------------------------------------------
(* CudaBatchNormBackwardOp::Call *)

GarbageObjs == {NoObj}

\* the CHAINERX_DEBUG block on the state's arrays
BackwardDebugAsserts(o) ==
    /\ o.x_cont.arr.device = o.x_mean.arr.device
    /\ o.x_cont.arr.device = o.x_inv_std.arr.device
    /\ o.x_cont.arr.contiguous

\* the assertions ahead of the engine call
BackwardDtypeAsserts(o, edt) ==
    /\ edt = o.x_mean.arr.dtype
    /\ edt = o.x_inv_std.arr.dtype
    /\ o.x_mean.arr.contiguous
    /\ o.x_inv_std.arr.contiguous

\* the call from the first use of the state's arrays on, with o the object
\* state_ptr is taken to point at: [outcome, engine, heap]
BackwardBody(o, gout, eps, axis) ==
    LET x_cont == o.x_cont.arr
        h0 == Put(Put(Put(Put(Heap(mem), "x_cont", o.x_cont.val), "x_mean", o.x_mean.val),
                      "x_inv_std", o.x_inv_std.val), "gout", Written("gout", 0))
        device == x_cont.device
        gout_cont == AsContiguousArr(gout, gout.dtype, "gout_cont")
        h1 == AsContiguousHeap(h0, gout, gout.dtype, "gout_cont")
        gx_cont == EmptyLike(x_cont, device, "gx_cont")
        edt == DeriveBNDtype(x_cont.dtype)
        gamma_casted_cont == AsContiguousArr(gamma, edt, "gamma_casted_cont")
        h2 == AsContiguousHeap(h1, gamma, edt, "gamma_casted_cont")
        h3 == CudnnBackward(h2, "x_cont", gout_cont.buf, gx_cont.buf,
                            "ggamma_casted_cont", "gbeta_casted_cont",
                            "x_mean", "x_inv_std")
        h4 == Put(Put(Put(h3, "gx", h3[gx_cont.buf]),
                      "ggamma", h3["ggamma_casted_cont"]),
                  "gbeta", h3["gbeta_casted_cont"])
    IN  IF debug /\ ~BackwardDebugAsserts(o)
        THEN [outcome |-> "abort", engine |-> FALSE, heap |-> mem]
        ELSE IF EpsBelowMin(eps)
        THEN [outcome |-> "CudnnError", engine |-> FALSE, heap |-> mem]
        ELSE IF GetBatchNormMode(axis) = "DimensionError"
        THEN [outcome |-> "DimensionError", engine |-> FALSE, heap |-> mem]
        ELSE IF debug /\ ~BackwardDtypeAsserts(o, edt)
        THEN [outcome |-> "abort", engine |-> FALSE, heap |-> mem]
        ELSE [outcome |-> "ok", engine |-> TRUE, heap |-> h4]

Backward ==
    /\ alive /\ fuel > 0
    /\ \E gout \in GoutInputs, eps \in EpsInputs, axis \in AxisInputs :
         IF debug /\ ~state.has_value
         THEN \* CHAINERX_ASSERT(state.has_value()) fails
              /\ last' = LastRec("backward", "abort", FALSE, FALSE, eps, 0, axis,
                                 NoEng)
              /\ alive' = FALSE
              /\ UNCHANGED <<mem, state>>
         ELSE IF ~state.held
         THEN \* state->get() of an empty optional, or member access through a
              \* null state_ptr: undefined behaviour
              \/ /\ last' = LastRec("backward", "crash", TRUE, FALSE, eps, 0, axis,
                                    NoEng)
                 /\ alive' = FALSE
                 /\ UNCHANGED <<mem, state>>
              \/ \E g \in GarbageObjs :
                   LET r == BackwardBody(g, gout, eps, axis)
                   IN  /\ last' = LastRec("backward", r.outcome, TRUE, r.engine,
                                          eps, 0, axis, NoEng)
                       /\ mem' = Caller(r.heap)
                       /\ alive' = (r.outcome # "abort")
                       /\ state' = BorrowState(state)
         ELSE LET r == BackwardBody(state.obj, gout, eps, axis)
              IN  /\ last' = LastRec("backward", r.outcome, FALSE, r.engine, eps, 0,
                                     axis, NoEng)
                  /\ mem' = Caller(r.heap)
                  /\ alive' = (r.outcome # "abort")
                  /\ state' = BorrowState(state)
    /\ fuel' = fuel - 1
    /\ UNCHANGED <<debug, x, running_mean, running_var, gamma, beta, axisArg, axisRes>>

----------------------------------------------------------------------------
(* CudaFixedBatchNormForwardOp::Call *)

FixedEngineCall_Training(heap, edt, xb, yb, meanb, varb, eps) ==
    CudnnForwardTraining(heap, edt, xb, yb, 1, meanb, varb, eps,
                         "x_mean", "x_inv_std")

\* the engine call of the fixed operator
FixedEngineCall(heap, edt, xb, yb, meanb, varb, eps) ==
    CudnnForwardInference(heap, xb, yb)

FixedForward ==
    /\ alive /\ fuel > 0
    /\ \E eps \in EpsInputs, axis \in AxisInputs :
         LET mean == running_mean
             var == running_var
             h0 == Heap(mem)
             x_cont == AsContiguousArr(x, x.dtype, "x_cont")
             h1 == AsContiguousHeap(h0, x, x.dtype, "x_cont")
             edt == DeriveBNDtype(x_cont.dtype)
             gamma_casted_cont == AsContiguousArr(gamma, edt, "gamma_casted_cont")
             h2 == AsContiguousHeap(h1, gamma, edt, "gamma_casted_cont")
             beta_casted_cont == AsContiguousArr(beta, edt, "beta_casted_cont")
             h3 == AsContiguousHeap(h2, beta, edt, "beta_casted_cont")
             mean_casted_cont == AsContiguousArr(mean, edt, "mean_casted_cont")
             h4 == AsContiguousHeap(h3, mean, edt, "mean_casted_cont")
             var_casted_cont == AsContiguousArr(var, edt, "var_casted_cont")
             h5 == AsContiguousHeap(h4, var, edt, "var_casted_cont")
             h6 == FixedEngineCall(h5, edt, x_cont.buf, "out", mean_casted_cont.buf,
                                   var_casted_cont.buf, eps)
         IN  IF EpsBelowMin(eps)
             THEN /\ last' = LastRec("fixed", "CudnnError", FALSE, FALSE, eps, 0,
                                     axis, NoEng)
                  /\ UNCHANGED mem
             ELSE IF GetBatchNormMode(axis) = "DimensionError"
             THEN /\ last' = LastRec("fixed", "DimensionError", FALSE, FALSE, eps, 0,
                                     axis, NoEng)
                  /\ UNCHANGED mem
             ELSE /\ last' = LastRec("fixed", "ok", FALSE, TRUE, eps, 0, axis,
                                     NoEng)
                  /\ mem' = Caller(h6)
    /\ fuel' = fuel - 1
    /\ UNCHANGED <<debug, x, running_mean, running_var, gamma, beta, state, alive,
                   axisArg, axisRes>>

----------------------------------------------------------------------------
(* A direct call of GetBatchNormMode *)

ResolveAxis ==
    /\ axisRes = "pending"
    /\ axisRes' = GetBatchNormMode(axisArg)
    /\ UNCHANGED <<debug, x, running_mean, running_var, gamma, beta, mem, state, last,
                   alive, fuel, axisArg>>

----------------------------------------------------------------------------
(* Specifications *)

InitMem(rdt, vdt, gdt, bdt) ==
    [b \in CallerBufs |->
        CASE b = "x" -> [mean |-> MaxVal \div 2 - 1, var |-> 1]
          [] b = "running_mean" -> CastVal(rdt, MaxVal - 1)
          [] b = "running_var" -> CastVal(vdt, MaxVal - 3)
          [] b = "gamma" -> CastVal(gdt, MaxVal)
          [] b = "beta" -> CastVal(bdt, 0)
          [] OTHER -> Unwritten]

\* the caller's tensors before the first call; gamma is laid out like the
\* running variance and beta like the running mean
InitTensors(rdts, vdts, layouts) ==
    \E rdt \in rdts, vdt \in vdts, rc \in layouts, vc \in layouts :
        /\ x \in {Arr(dt, c, TheDevice, "x") : dt \in Dtypes, c \in BOOLEAN}
        /\ running_mean = Arr(rdt, rc, TheDevice, "running_mean")
        /\ running_var = Arr(vdt, vc, TheDevice, "running_var")
        /\ gamma = Arr(vdt, vc, TheDevice, "gamma")
        /\ beta = Arr(rdt, rc, TheDevice, "beta")
        /\ mem = InitMem(rdt, vdt, vdt, rdt)

InitCommon ==
    /\ debug \in BOOLEAN
    /\ state \in {NullOpt, NullPtr}
    /\ last = NoCall
    /\ alive = TRUE
    /\ axisArg = <<>>
    /\ axisRes = "none"

\* single calls over every layout of the caller's tensors
Init ==
    /\ InitCommon
    /\ InitTensors(Dtypes, Dtypes, BOOLEAN)
    /\ fuel = OpsCalls

Next == ForwardTraining \/ Backward \/ FixedForward

Spec == Init /\ [][Next]_vars

\* sequences of calls on contiguous running statistics
InitLife ==
    /\ InitCommon
    /\ InitTensors({"float16"}, {"float32"}, {TRUE})
    /\ fuel = LifeCalls

SpecLife == InitLife /\ [][Next]_vars

\* GetBatchNormMode over every axis sequence
InitAxes ==
    /\ debug = FALSE
    /\ state = NullOpt
    /\ last = NoCall
    /\ alive = TRUE
    /\ InitTensors({"float32"}, {"float32"}, {TRUE})
    /\ fuel = 0
    /\ axisArg \in AxesInputs
    /\ axisRes = "pending"

NextAxes == ResolveAxis

SpecAxes == InitAxes /\ [][NextAxes]_vars

----------------------------------------------------------------------------
(* Properties *)

SupportedAxes == {<<0>>, <<0, 2, 3>>, <<0, 2, 3, 4>>}

ForwardOk == last.op = "forward" /\ last.outcome = "ok"

\* C1: GetBatchNormMode returns PER_ACTIVATION exactly for the axis sequence
\* (0), SPATIAL exactly for (0,2,3) and (0,2,3,4), and raises DimensionError,
\* returning no mode, for every other axis sequence.
C1_AxisMode ==
    axisRes # "pending" =>
        /\ (axisRes = "PER_ACTIVATION") <=> (axisArg = <<0>>)
        /\ (axisRes = "SPATIAL") <=> (axisArg \in {<<0, 2, 3>>, <<0, 2, 3, 4>>})
        /\ (axisRes = "DimensionError") <=> (axisArg \notin SupportedAxes)
        /\ axisRes \in {"PER_ACTIVATION", "SPATIAL", "DimensionError"}

C1_Witness == axisArg = <<0, 2, 3, 5>> /\ axisRes = "DimensionError"

C3_NoStateIsFatal ==
    (last.op = "backward" /\ ~last.held) =>
        /\ last.outcome \in {"abort", "crash"}
        /\ ~last.engine
        /\ mem["gx"] = Unwritten /\ mem["ggamma"] = Unwritten
        /\ mem["gbeta"] = Unwritten

\* C4: after a successful forward-training call the slot holds a state object
\* iff the slot was present on entry; the object holds the contiguous copy of
\* x and the batch mean and inverse std the engine wrote in that call; an
\* absent slot stays absent.
C4_StateRetained ==
    ForwardOk =>
        /\ state.held <=> last.slot
        /\ ~last.slot => state = NullOpt
        /\ last.slot =>
             /\ state.obj.x_cont.val = mem["x"]
             /\ state.obj.x_cont.arr.contiguous
             /\ state.obj.x_cont.arr.dtype = x.dtype
             /\ x.contiguous => state.obj.x_cont.arr = x
             /\ state.obj.x_mean.val = last.eng.bmean
             /\ state.obj.x_inv_std.val = [var |-> last.eng.bvar, eps |-> last.eps]

C4_Witness == ForwardOk /\ last.slot /\ state.held /\ ~x.contiguous

\* C5 as claimed: the three fields of a retained state are on one device,
\* have one dtype and are contiguous, for every dtype of x.
C5_OneDtype ==
    state.held =>
        /\ state.obj.x_cont.arr.device = state.obj.x_mean.arr.device
        /\ state.obj.x_cont.arr.device = state.obj.x_inv_std.arr.device
        /\ state.obj.x_cont.arr.dtype = state.obj.x_mean.arr.dtype
        /\ state.obj.x_cont.arr.dtype = state.obj.x_inv_std.arr.dtype
        /\ state.obj.x_cont.arr.contiguous
        /\ state.obj.x_mean.arr.contiguous
        /\ state.obj.x_inv_std.arr.contiguous

\* C5 amended: the three fields of a retained state are on one device (that
\* of x) and contiguous; the contiguous x keeps the dtype of x, the batch mean
\* and inverse std have the engine's parameter dtype, which is the dtype of x
\* for float32 and float64 and float32 for a float16 x.
C5_StateFields ==
    state.held =>
        /\ state.obj.x_cont.arr.device = x.device
        /\ state.obj.x_mean.arr.device = x.device
        /\ state.obj.x_inv_std.arr.device = x.device
        /\ state.obj.x_cont.arr.contiguous
        /\ state.obj.x_mean.arr.contiguous
        /\ state.obj.x_inv_std.arr.contiguous
        /\ state.obj.x_cont.arr.dtype = x.dtype
        /\ state.obj.x_mean.arr.dtype = state.obj.x_inv_std.arr.dtype
        /\ state.obj.x_mean.arr.dtype =
               (IF x.dtype = "float16" THEN "float32" ELSE x.dtype)

C5_Witness == state.held /\ x.dtype = "float16" /\ gamma.dtype = "float64"

\* d*m + (1-d)*b, for d = decay/DecayDen, as dtype dt stores it
DecayLaw(dt, decay, m, b) == RoundTo(dt, decay * m + (DecayDen - decay) * b, DecayDen)

\* C6 as claimed: after a successful forward-training call the caller's
\* running mean is d*m + (1-d)*b as the engine computes it, and the running
\* variance likewise.
C6_Exact ==
    ForwardOk =>
        /\ mem["running_mean"] =
               DecayLaw(last.eng.edt, last.decay, last.pre_rm, last.eng.bmean)
        /\ mem["running_var"] =
               DecayLaw(last.eng.edt, last.decay, last.pre_rv, last.eng.bvar)

\* C6 amended: the caller's running mean is d*m + (1-d)*b as the engine
\* computes it when the running tensor has the engine's parameter dtype, and
\* within one spacing of the coarser of the two dtypes otherwise; the running
\* variance likewise.
C6_DecayLaw ==
    ForwardOk =>
        LET em == DecayLaw(last.eng.edt, last.decay, last.pre_rm, last.eng.bmean)
            ev == DecayLaw(last.eng.edt, last.decay, last.pre_rv, last.eng.bvar)
        IN  /\ running_mean.dtype = last.eng.edt => mem["running_mean"] = em
            /\ running_var.dtype = last.eng.edt => mem["running_var"] = ev
            /\ Abs(mem["running_mean"] - em) <= Coarser(running_mean.dtype, last.eng.edt)
            /\ Abs(mem["running_var"] - ev) <= Coarser(running_var.dtype, last.eng.edt)

C6_Witness ==
    /\ ForwardOk /\ running_mean.dtype = "float16"
    /\ mem["running_mean"] #
           DecayLaw(last.eng.edt, last.decay, last.pre_rm, last.eng.bmean)

\* C7: in a successful forward-training call, for each running statistic on
\* its own: if its dtype differs from the engine's parameter dtype the engine
\* updates a temporary, whose value cast back is copied into the caller's
\* tensor; if the dtypes agree the engine updates the caller's storage and no
\* copy follows. Either way the caller's tensor holds the engine's value.
C7_WriteBack ==
    ForwardOk =>
        /\ IF running_mean.dtype # last.eng.edt
           THEN /\ last.eng.rm_target # running_mean.buf
                /\ last.eng.rm_copied
                /\ mem["running_mean"] = CastVal(running_mean.dtype, last.eng.rm_engine)
           ELSE /\ last.eng.rm_target = running_mean.buf
                /\ ~last.eng.rm_copied
                /\ mem["running_mean"] = last.eng.rm_engine
        /\ IF running_var.dtype # last.eng.edt
           THEN /\ last.eng.rv_target # running_var.buf
                /\ last.eng.rv_copied
                /\ mem["running_var"] = CastVal(running_var.dtype, last.eng.rv_engine)
           ELSE /\ last.eng.rv_target = running_var.buf
                /\ ~last.eng.rv_copied
                /\ mem["running_var"] = last.eng.rv_engine

C7_Witness ==
    /\ ForwardOk
    /\ running_mean.dtype # last.eng.edt /\ running_var.dtype = last.eng.edt
    /\ mem["running_mean"] # last.pre_rm /\ mem["running_var"] # last.pre_rv

\* C8: a fixed forward call changes nothing of the caller but out: mean,
\* variance, gamma, beta and x keep their values, and the state slot is left
\* as it was.
C8_FixedFrame ==
    [][last'.op = "fixed" =>
          /\ \A b \in CallerBufs \ {"out"} : mem'[b] = mem[b]
          /\ state' = state
          /\ last'.outcome = "ok" => mem'["out"].by = "inference"
          /\ last'.outcome # "ok" => mem'["out"] = mem["out"]]_vars

C8_Witness ==
    /\ last.op = "fixed" /\ last.outcome = "ok" /\ mem["out"].by = "inference"
    /\ x.dtype = "float16"
    /\ running_mean.contiguous /\ running_mean.dtype = "float32"
    /\ ~running_var.contiguous

\* C9: a backward call leaves the state slot and the state object as they
\* were, and a backward call that repeats a successful one on the same state
\* with the same arguments succeeds again with the same gradients.
C9_BorrowOnly ==
    [][last'.op = "backward" =>
          /\ state' = state
          /\ last'.again =>
               /\ last'.outcome = "ok"
               /\ mem' = mem]_vars

C9_Witness == last.op = "backward" /\ last.again /\ last.outcome = "ok" /\ state.held

\* the outcome the order eps, running mean, running variance, axis gives
FirstViolated(eps, axis) ==
    IF eps < CUDNN_BN_MIN_EPSILON THEN "CudnnError"
    ELSE IF ~running_mean.contiguous THEN "DeviceError(running_mean)"
    ELSE IF ~running_var.contiguous THEN "DeviceError(running_var)"
    ELSE IF axis \notin SupportedAxes THEN "DimensionError"
    ELSE "ok"

\* C10: a forward-training call that violates a production-path precondition
\* raises the error of the first violated one in the order eps, running mean
\* contiguity, running variance contiguity, axis, without invoking the engine,
\* and leaves out, the running statistics and the state slot as they were.
C10_FailFirst ==
    [][last'.op = "forward" =>
          /\ last'.outcome = FirstViolated(last'.eps, last'.axis)
          /\ last'.outcome # "ok" =>
               /\ ~last'.engine
               /\ mem' = mem
               /\ state' = state]_vars

C10_Witness ==
    /\ last.op = "forward" /\ last.outcome = "DeviceError(running_mean)"
    /\ ~running_var.contiguous /\ last.axis \notin SupportedAxes
    /\ state = NullPtr

====
